---- MODULE Spec2Model ----
(***************************************************************************)
(* A model of the CommitDB Python driver (commitdb/client.py): the CommitDB *)
(* session object (socket handle, read buffer), its operations connect,    *)
(* close, _send, execute, query and the commit wrappers, and the dispatch  *)
(* of execute on the decoded response envelope.                            *)
(*                                                                         *)
(* Bytes are modelled as tokens [c |-> ...].  The text of a JSON object is *)
(* the two tokens LBrace(d), RBrace: the first stands for the opening      *)
(* brace and the serialized members of d, the second for the closing       *)
(* brace, so a response can be truncated or split between the two.         *)
(*                                                                         *)
(* Specifications: Spec (responses in arbitrary chunks), SpecLines (whole  *)
(* response lines, every envelope, every method), SpecResults (the caller  *)
(* using the result objects), SpecWith (the with-block), SpecMerge (the    *)
(* commands of a manual merge), SpecServer (a peer that answers each       *)
(* command line in order), SpecEmbedded (the embedded client of the        *)
(* specification beside the remote client) and SpecStream (the session     *)
(* with every received byte and consumed line recorded).                   *)
(***************************************************************************)
EXTENDS Integers, Sequences, FiniteSets, TLC

VARIABLES
    socket,     \* self._socket: NoSocket (None) or a socket object
    buffer,     \* self._buffer: bytes received and not yet consumed
    nsock,      \* number of socket objects created so far (object identity)
    pc,         \* "idle", or "recv": inside _send's loop, blocked in recv()
    call,       \* the public method running or last run, with its command
    pre,        \* history: socket and buffer when that method was entered
    io,         \* history: the transport calls that method made, in order
    result,     \* what that method returned or raised
    obs,        \* the result object the caller holds, and its last use
    scope,      \* the caller's with-block on the session
    merging,    \* history: a manual merge was started and not yet ended
    wire,       \* the server's end of the connection, and the bytes in flight
    local,      \* the embedded client given the same commands and responses
    heard       \* history: every byte received and every line consumed

\* the session and its history
session == <<socket, buffer, nsock, pc, call, pre, io, result>>

\* what the callers and the peers of the session keep
ext == <<obs, scope, merging, wire, local, heard>>

\* ext without obs
extResults == <<scope, merging, wire, local, heard>>

\* ext without scope
extWith == <<obs, merging, wire, local, heard>>

\* ext without merging
extMerge == <<obs, scope, wire, local, heard>>

\* ext without wire
extServer == <<obs, scope, merging, local, heard>>

\* ext without heard
extStream == <<obs, scope, merging, wire, local>>

\* ext without local
extEmbedded == <<obs, scope, merging, wire, heard>>

vars == <<session, ext>>

----------------------------------------------------------------------------
(* Bounds of the model *)

\* longest read buffer explored
MaxBuf == 4
\* longest chunk one recv() returns
MaxChunk == 2
\* socket objects created in one run
MaxSock == 2

----------------------------------------------------------------------------
(* Bytes and texts *)

Ch(s) == [c |-> s]

\* b'\n', the frame delimiter
NL == Ch("\n")

\* a byte that is not valid UTF-8
BadByte == Ch("0xFF")

RBrace == Ch("}")

LBrace(d) == [c |-> "{", members |-> d]

Contains(bytes, b) == \E i \in 1..Len(bytes) : bytes[i] = b

\* index of the first occurrence of b in bytes (b occurs in bytes)
FirstIndex(bytes, b) == CHOOSE i \in 1..Len(bytes) :
                            /\ bytes[i] = b
                            /\ \A j \in 1..(i - 1) : bytes[j] # b

\* index of the last occurrence of b in bytes (b occurs in bytes)
LastIndex(bytes, b) == CHOOSE i \in 1..Len(bytes) :
                           /\ bytes[i] = b
                           /\ \A j \in (i + 1)..Len(bytes) : bytes[j] # b

\* bytes.rsplit(b, 1)
SplitAtLast(bytes, b) ==
    LET i == LastIndex(bytes, b)
    IN  <<SubSeq(bytes, 1, i - 1), SubSeq(bytes, i + 1, Len(bytes))>>

\* bytes.split(b, 1), for bytes that contain b
SplitOnce(bytes, b) ==
    LET i == FirstIndex(bytes, b)
    IN  <<SubSeq(bytes, 1, i - 1), SubSeq(bytes, i + 1, Len(bytes))>>

----------------------------------------------------------------------------
(* JSON values and Python results *)

\* the empty dict {}
EmptyObj == [k \in {} |-> 0]

\* dict.get(key, default)
Get(d, key, default) == IF key \in DOMAIN d THEN d[key] ELSE default

JObject(f) == [json |-> "object", fields |-> f]

JNull == [json |-> "null", fields |-> EmptyObj]

\* the bytes a server writes for a JSON value
Text(v) == IF v.json = "object" THEN <<LBrace(v.fields), RBrace>> ELSE <<Ch("null")>>

NoneValue == [cls |-> "None"]

Return(v) == [kind |-> "return", exc |-> "", msg |-> "", value |-> v]

Raise(exc, msg) == [kind |-> "raise", exc |-> exc, msg |-> msg, value |-> NoneValue]

\* before any method has run
NoResult == [kind |-> "none", exc |-> "", msg |-> "", value |-> NoneValue]

CommitDBError(msg) == Raise("CommitDBError", msg)

QueryResult(columns, data, records_read, time_ms) ==
    [cls |-> "QueryResult", columns |-> columns, data |-> data,
     records_read |-> records_read, time_ms |-> time_ms]

CommitResult(dbc, dbd, tc, td, rw, rd, time_ms) ==
    [cls |-> "CommitResult",
     databases_created |-> dbc, databases_deleted |-> dbd,
     tables_created |-> tc, tables_deleted |-> td,
     records_written |-> rw, records_deleted |-> rd, time_ms |-> time_ms]

\* CommitResult(): every field at its dataclass default (0.0 is written 0)
DefaultCommitResult == CommitResult(0, 0, 0, 0, 0, 0, 0)

\* json.loads(text): the value whose text this is, or JSONDecodeError
Loads(text) ==
    IF Len(text) = 2 /\ text[1].c = "{" /\ text[2] = RBrace
    THEN [ok |-> TRUE, value |-> JObject(text[1].members)]
    ELSE IF text = <<Ch("null")>>
    THEN [ok |-> TRUE, value |-> JNull]
    ELSE [ok |-> FALSE, value |-> JNull]

\* _send, the part after the split: json.loads(line.decode('utf-8')), with
\* only JSONDecodeError caught.  A returned value is Return(value).
ParseLine(line) ==
    IF Contains(line, BadByte)
    THEN Raise("UnicodeDecodeError", "invalid start byte")
    ELSE IF Loads(line).ok
    THEN Return(Loads(line).value)
    ELSE CommitDBError("Invalid response from server")

\* the server's text replaced by the default message
ServerErrorDropsText(f) == CommitDBError("Unknown error")

\* raise CommitDBError(response.get('error', 'Unknown error'))
ServerError(f) == CommitDBError(Get(f, "error", "Unknown error"))

\* QueryResult(columns=result_data.get('columns', []), ...)
QueryResultOf(result_data) ==
    QueryResult(Get(result_data, "columns", <<>>),
                Get(result_data, "data", <<>>),
                Get(result_data, "records_read", 0),
                Get(result_data, "time_ms", 0))

\* the same with records_written and records_deleted exchanged
CommitResultSwapped(result_data) ==
    CommitResult(Get(result_data, "databases_created", 0),
                 Get(result_data, "databases_deleted", 0),
                 Get(result_data, "tables_created", 0),
                 Get(result_data, "tables_deleted", 0),
                 Get(result_data, "records_deleted", 0),
                 Get(result_data, "records_written", 0),
                 Get(result_data, "time_ms", 0))

\* CommitResult(databases_created=result_data.get('databases_created', 0), ...)
CommitResultOf(result_data) ==
    CommitResult(Get(result_data, "databases_created", 0),
                 Get(result_data, "databases_deleted", 0),
                 Get(result_data, "tables_created", 0),
                 Get(result_data, "tables_deleted", 0),
                 Get(result_data, "records_written", 0),
                 Get(result_data, "records_deleted", 0),
                 Get(result_data, "time_ms", 0))

\* execute, after _send returned response
Dispatch(response) ==
    IF response.json # "object"
    THEN Raise("AttributeError", "object has no attribute 'get'")
    ELSE LET f == response.fields
             result_data == Get(f, "result", EmptyObj)
         IN  IF ~("success" \in DOMAIN f /\ f.success)
             THEN ServerError(f)
             ELSE IF "type" \in DOMAIN f /\ f.type = "query"
             THEN Return(QueryResultOf(result_data))
             ELSE IF "type" \in DOMAIN f /\ f.type = "commit"
             THEN Return(CommitResultOf(result_data))
             ELSE Return(DefaultCommitResult)

\* execute, given what _send returned or raised
Execute(sent) == IF sent.kind = "raise" THEN sent ELSE Dispatch(sent.value)

\* query without its isinstance test
QueryUnchecked(r) == r

\* query, given what execute returned or raised
Query(r) ==
    IF r.kind = "raise" THEN r
    ELSE IF r.value.cls # "QueryResult"
    THEN CommitDBError("Expected query result, got commit result")
    ELSE r

\* create_database, drop_database, create_table, insert, given execute's outcome
ExpectCommit(r) ==
    IF r.kind = "raise" THEN r
    ELSE IF r.value.cls # "CommitResult"
    THEN CommitDBError("Expected commit result")
    ELSE r

\* show_databases, show_tables, given query's outcome
FirstCells(r) ==
    IF r.kind = "raise" THEN r
    ELSE LET data == r.value.data
         IN  IF \E i \in 1..Len(data) : Len(data[i]) = 0
             THEN Raise("IndexError", "list index out of range")
             ELSE Return([cls |-> "list",
                          items |-> [i \in 1..Len(data) |-> data[i][1]]])

Methods == {"execute", "query", "create_database", "drop_database",
            "create_table", "insert", "show_databases", "show_tables"}

\* what the public method returns or raises, given what _send did
MethodResult(method, sent) ==
    CASE method = "execute" -> Execute(sent)
      [] method = "query" -> Query(Execute(sent))
      [] method \in {"create_database", "drop_database", "create_table", "insert"}
            -> ExpectCommit(Execute(sent))
      [] method \in {"show_databases", "show_tables"}
            -> FirstCells(Query(Execute(sent)))

----------------------------------------------------------------------------
(* The result objects *)

Min(a, b) == IF a <= b THEN a ELSE b

\* dict(zip(columns, row)): the pairs up to the shorter of the two; of two
\* cells under one column name the later one stays
DictZip(columns, row) ==
    LET n == Min(Len(columns), Len(row))
        Last(k) == CHOOSE j \in 1..n :
                       /\ columns[j] = k
                       /\ \A m \in (j + 1)..n : columns[m] # k
    IN  [k \in {columns[j] : j \in 1..n} |-> row[Last(k)]]

\* QueryResult.__iter__, run to exhaustion: list(result)
Iterate(r) == [i \in 1..Len(r.data) |-> DictZip(r.columns, r.data[i])]

\* QueryResult.__len__
QueryResultLen(r) == Len(r.data)

\* QueryResult.__getitem__(index): self.data[index] counts from 0, and from
\* the end for a negative index
GetItem(r, index) ==
    LET n == Len(r.data)
        k == IF index < 0 THEN index + n ELSE index
    IN  IF k < 0 \/ k >= n
        THEN Raise("IndexError", "list index out of range")
        ELSE Return(DictZip(r.columns, r.data[k + 1]))

\* the sum without the two deletion counters of records and tables
AffectedRowsCreatedOnly(r) ==
    r.databases_created + r.tables_created + r.records_written

\* CommitResult.affected_rows
affected_rows(r) ==
    r.databases_created + r.databases_deleted + r.tables_created
        + r.tables_deleted + r.records_written + r.records_deleted

----------------------------------------------------------------------------
(* Response envelopes a server can write *)

\* a dict with the key absent, or present with one of the values
Opt(key, vals) == {EmptyObj} \cup {[k \in {key} |-> v] : v \in vals}

Without(f, key) == [k \in (DOMAIN f) \ {key} |-> f[k]]

FullQueryResult ==
    [columns |-> <<"id", "name">>,
     data |-> << <<"1", "Alice">>, <<"2", "Bob">> >>,
     records_read |-> 2, time_ms |-> 1]

\* a result whose second row has one cell for two columns
RaggedQueryResult ==
    [columns |-> <<"id", "name">>,
     data |-> << <<"1", "Alice">>, <<"2">> >>,
     records_read |-> 2, time_ms |-> 1]

FullCommitResult ==
    [databases_created |-> 1, databases_deleted |-> 2,
     tables_created |-> 3, tables_deleted |-> 4,
     records_written |-> 5, records_deleted |-> 6, time_ms |-> 7]

\* the "result" objects: complete, ragged, with one field missing, and empty
ResultObjects ==
    {EmptyObj, FullQueryResult, RaggedQueryResult, FullCommitResult}
    \cup {Without(FullQueryResult, k) : k \in DOMAIN FullQueryResult}
    \cup {Without(FullCommitResult, k) : k \in DOMAIN FullCommitResult}

TypeValues == {"query", "commit", "status"}

ErrorTexts == {"table not found"}

\* every envelope: each of success, type, result and error present or absent
Envelopes ==
    {s @@ t @@ r @@ e : s \in Opt("success", BOOLEAN), t \in Opt("type", TypeValues),
                        r \in Opt("result", ResultObjects), e \in Opt("error", ErrorTexts)}

\* every JSON value a response line can hold
JsonValues == {JObject(f) : f \in Envelopes} \cup {JNull}

\* the envelope whose bytes arrive in arbitrary chunks
WireEnvelopes ==
    {[success |-> TRUE, type |-> "query", result |-> FullQueryResult]}

WireBytes == {NL, RBrace, BadByte} \cup {LBrace(f) : f \in WireEnvelopes}

\* what one recv(4096) can return, other than b''
WireChunks == UNION {[1..n -> WireBytes] : n \in 1..MaxChunk}

\* one whole response line in one chunk
LineChunks == {Text(v) \o <<NL>> : v \in JsonValues}

----------------------------------------------------------------------------
(* Commands *)

RECURSIVE Join(_, _)
\* sep.join(texts)
Join(texts, sep) ==
    IF Len(texts) = 0 THEN <<>>
    ELSE IF Len(texts) = 1 THEN texts[1]
    ELSE texts[1] \o sep \o Join(Tail(texts), sep)

\* f"'{v}'" if isinstance(v, str) else str(v)
Quoted(v) == IF v.str THEN <<Ch("'")>> \o v.text \o <<Ch("'")>> ELSE v.text

\* the command text each public method hands to execute
Command(method, a) ==
    CASE method \in {"execute", "query"} -> a.text
      [] method = "create_database" -> <<Ch("CREATE DATABASE ")>> \o a.name
      [] method = "drop_database" -> <<Ch("DROP DATABASE ")>> \o a.name
      [] method = "create_table" ->
            <<Ch("CREATE TABLE ")>> \o a.name \o <<Ch(".")>> \o a.table
                \o <<Ch(" (")>> \o a.columns[1] \o <<Ch(")")>>
      [] method = "insert" ->
            <<Ch("INSERT INTO ")>> \o a.name \o <<Ch(".")>> \o a.table
                \o <<Ch(" (")>> \o Join(a.columns, <<Ch(", ")>>)
                \o <<Ch(") VALUES (")>>
                \o Join([i \in 1..Len(a.values) |-> Quoted(a.values[i])], <<Ch(", ")>>)
                \o <<Ch(")")>>
      [] method = "show_databases" -> <<Ch("SHOW DATABASES")>>
      [] method = "show_tables" -> <<Ch("SHOW TABLES IN ")>> \o a.name

\* the arguments the callers pass: a command text of one line and one of
\* two lines, and one value for each other parameter
Arguments ==
    [text : {<<Ch("SELECT 1")>>, <<Ch("SELECT 1"), NL, Ch("SELECT 2")>>},
     name : {<<Ch("mydb")>>},
     table : {<<Ch("users")>>},
     columns : {<< <<Ch("id")>>, <<Ch("name")>> >>},
     values : {<<[str |-> FALSE, text |-> <<Ch("1")>>],
                 [str |-> TRUE, text |-> <<Ch("Alice")>>]>>}]

Calls == {[method |-> m, command |-> Command(m, a)] : m \in Methods, a \in Arguments}

\* the calls made while responses arrive in arbitrary chunks
WireCalls ==
    {c \in Calls : c.method \in {"execute", "query"} /\ ~Contains(c.command, NL)}

\* (query + '\n').encode('utf-8')
Frame(query) == query \o <<NL>>

\* b'quit\n'
Quit == <<Ch("quit"), NL>>

----------------------------------------------------------------------------
(* The session *)

\* self._socket = None
NoSocket == [id |-> 0, connected |-> FALSE]

\* one call on the transport: op on socket object sock, with the bytes passed
\* or returned, and n the count returned (-1: the call raised)
IO(op, sock, data, n) == [op |-> op, sock |-> sock, data |-> data, n |-> n]

\* socket.send(data): the number of bytes accepted, which may be fewer than
\* len(data), or -1 for OSError (always, on a socket that never connected)
SendOutcomes(sock, data) ==
    IF sock.connected THEN {-1} \cup (1..Len(data)) ELSE {-1}

\* the test of the handle left out of close
AlwaysTrue(sock) == TRUE

\* the test of the handle left out of _send
NeverTrue(sock) == FALSE

\* close: if self._socket
HasSocket(sock) == sock # NoSocket

\* _send: if not self._socket
NotConnected(sock) == sock = NoSocket

\* an empty read reported as an invalid response
ClosedAsInvalid == CommitDBError("Invalid response from server")

\* _send: raise CommitDBError("Connection closed by server")
ClosedByPeer == CommitDBError("Connection closed by server")

\* the caller holds no result object
NoObs == [obj |-> NoneValue, from |-> "", op |-> "", arg |-> 0, out |-> NoResult]

\* the caller holds r, returned by execute or built by the caller, unused
Fresh(r, from) == [obj |-> r, from |-> from, op |-> "", arg |-> 0, out |-> NoResult]

\* no with-block has been entered
NoScope == [state |-> "out", raised |-> NoResult, outcome |-> NoResult]

\* a connection on which nothing was sent: the bytes the server holds of an
\* unfinished command line, the response bytes not yet received, and the
\* numbers of command methods called, of command lines the server got and
\* of response lines the client took, and whether a send was cut short
\* (history)
NoWire ==
    [srvbuf |-> <<>>, inflight |-> <<>>, calls |-> 0, sent |-> 0, taken |-> 0,
     short |-> FALSE]

\* the embedded client before open: no library loaded, no method run;
\* paired is set while its last method ran on the remote client's last
\* command and response
NoLocal ==
    [open |-> FALSE, paired |-> FALSE,
     call |-> [method |-> "__init__", command |-> <<>>], result |-> NoResult]

\* nothing received yet: the bytes received, each with the socket it came
\* from, the lines _send took off the buffer, in order, and the sockets
\* close() has released
NoneHeard == [rx |-> <<>>, lines |-> <<>>, closed |-> {}]

InitExt ==
    /\ obs = NoObs
    /\ scope = NoScope
    /\ merging = FALSE
    /\ wire = NoWire
    /\ local = NoLocal
    /\ heard = NoneHeard

TypeOK ==
    /\ pc \in {"idle", "recv"}
    /\ nsock \in 0..MaxSock
    /\ socket.id \in 0..nsock
    /\ Len(buffer) <= MaxBuf

Init ==
    /\ socket = NoSocket
    /\ buffer = <<>>
    /\ nsock = 0
    /\ pc = "idle"
    /\ call = [method |-> "__init__", command |-> <<>>]
    /\ pre = [socket |-> NoSocket, buffer |-> <<>>]
    /\ io = <<>>
    /\ result = NoResult
    /\ InitExt

\* connect(timeout)
Connect ==
    /\ pc = "idle"
    /\ nsock < MaxSock
    /\ \E ok \in BOOLEAN :
        /\ socket' = [id |-> nsock + 1, connected |-> ok]
        /\ io' = <<IO("socket", nsock + 1, <<>>, 0),
                   IO("connect", nsock + 1, <<>>, IF ok THEN 0 ELSE -1)>>
        /\ result' = IF ok THEN Return([cls |-> "CommitDB"])
                          ELSE Raise("OSError", "connect failed")
    /\ nsock' = nsock + 1
    /\ call' = [method |-> "connect", command |-> <<>>]
    /\ pre' = [socket |-> socket, buffer |-> buffer]
    /\ UNCHANGED <<buffer, pc>>

\* close() without its try/except around the send
CloseNoExcept ==
    /\ pc = "idle"
    /\ call' = [method |-> "close", command |-> <<>>]
    /\ pre' = [socket |-> socket, buffer |-> buffer]
    /\ IF HasSocket(socket)
       THEN \E n \in SendOutcomes(socket, Quit) :
              IF n < 0
              THEN /\ io' = <<IO("send", socket.id, Quit, n)>>
                   /\ result' = Raise("OSError", "send failed")
                   /\ socket' = socket
              ELSE /\ io' = <<IO("send", socket.id, Quit, n),
                              IO("close", socket.id, <<>>, 0)>>
                   /\ result' = Return(NoneValue)
                   /\ socket' = NoSocket
       ELSE /\ io' = <<>>
            /\ result' = Return(NoneValue)
            /\ socket' = socket
    /\ UNCHANGED <<buffer, nsock, pc>>

\* close() that also empties the read buffer
CloseClearsBuffer ==
    /\ pc = "idle"
    /\ call' = [method |-> "close", command |-> <<>>]
    /\ pre' = [socket |-> socket, buffer |-> buffer]
    /\ result' = Return(NoneValue)
    /\ IF HasSocket(socket)
       THEN /\ \E n \in SendOutcomes(socket, Quit) :
                  io' = <<IO("send", socket.id, Quit, n),
                          IO("close", socket.id, <<>>, 0)>>
            /\ socket' = NoSocket
            /\ buffer' = <<>>
       ELSE /\ io' = <<>>
            /\ socket' = socket
            /\ buffer' = buffer
    /\ UNCHANGED <<nsock, pc>>

\* close()
Close ==
    /\ pc = "idle"
    /\ call' = [method |-> "close", command |-> <<>>]
    /\ pre' = [socket |-> socket, buffer |-> buffer]
    /\ result' = Return(NoneValue)
    /\ IF HasSocket(socket)
       THEN /\ \E n \in SendOutcomes(socket, Quit) :
                  io' = <<IO("send", socket.id, Quit, n),
                          IO("close", socket.id, <<>>, 0)>>
            /\ socket' = NoSocket
       ELSE /\ io' = <<>>
            /\ socket' = socket
    /\ UNCHANGED <<buffer, nsock, pc>>

\* _send from the split on: the line is taken off the buffer and parsed
TakeLine(buf) ==
    LET parts == SplitOnce(buf, NL)
    IN  [buffer |-> parts[2], sent |-> ParseLine(parts[1])]

\* a public method up to _send's first recv(): the not-connected check, the
\* send, and the rest of _send when the buffer already holds a newline
Call(c) ==
    /\ pc = "idle"
    /\ call' = c
    /\ pre' = [socket |-> socket, buffer |-> buffer]
    /\ IF NotConnected(socket)
       THEN /\ io' = <<>>
            /\ result' = MethodResult(c.method,
                            CommitDBError("Not connected. Call connect() first."))
            /\ UNCHANGED <<buffer, pc>>
       ELSE \E n \in SendOutcomes(socket, Frame(c.command)) :
            /\ io' = <<IO("send", socket.id, Frame(c.command), n)>>
            /\ IF n < 0
               THEN /\ result' = MethodResult(c.method, Raise("OSError", "send failed"))
                    /\ UNCHANGED <<buffer, pc>>
               ELSE IF Contains(buffer, NL)
               THEN /\ buffer' = TakeLine(buffer).buffer
                    /\ result' = MethodResult(c.method, TakeLine(buffer).sent)
                    /\ pc' = pc
               ELSE /\ result' = NoResult
                    /\ pc' = "recv"
                    /\ buffer' = buffer
    /\ UNCHANGED <<socket, nsock>>

\* _send keeping only the newest chunk, where the code appends it to the buffer
RecvChunkOverwrites(chunk) ==
    /\ pc = "recv"
    /\ Len(buffer) + Len(chunk) <= MaxBuf
    /\ io' = Append(io, IO("recv", socket.id, chunk, Len(chunk)))
    /\ IF Contains(chunk, NL)
       THEN /\ buffer' = TakeLine(chunk).buffer
            /\ result' = MethodResult(call.method, TakeLine(chunk).sent)
            /\ pc' = "idle"
       ELSE /\ buffer' = chunk
            /\ result' = result
            /\ pc' = pc
    /\ UNCHANGED <<socket, nsock, call, pre>>

\* recv(4096) returns a chunk; _send goes on to the split when it can
RecvChunk(chunk) ==
    /\ pc = "recv"
    /\ Len(chunk) > 0
    /\ Len(buffer) + Len(chunk) <= MaxBuf
    /\ io' = Append(io, IO("recv", socket.id, chunk, Len(chunk)))
    /\ IF Contains(buffer \o chunk, NL)
       THEN /\ buffer' = TakeLine(buffer \o chunk).buffer
            /\ result' = MethodResult(call.method, TakeLine(buffer \o chunk).sent)
            /\ pc' = "idle"
       ELSE /\ buffer' = buffer \o chunk
            /\ result' = result
            /\ pc' = pc
    /\ UNCHANGED <<socket, nsock, call, pre>>

\* _send giving the session up when the peer has closed: the socket is
\* dropped and the partial response with it
RecvClosedResets ==
    /\ pc = "recv"
    /\ io' = Append(io, IO("recv", socket.id, <<>>, 0))
    /\ result' = MethodResult(call.method, ClosedByPeer)
    /\ pc' = "idle"
    /\ socket' = NoSocket
    /\ buffer' = <<>>
    /\ UNCHANGED <<nsock, call, pre>>

\* recv(4096) returns b'': the peer closed the connection
RecvClosed ==
    /\ pc = "recv"
    /\ io' = Append(io, IO("recv", socket.id, <<>>, 0))
    /\ result' = MethodResult(call.method, ClosedByPeer)
    /\ pc' = "idle"
    /\ UNCHANGED <<socket, buffer, nsock, call, pre>>

\* recv(4096) raises: the read timed out or the connection was reset
RecvError ==
    /\ pc = "recv"
    /\ io' = Append(io, IO("recv", socket.id, <<>>, -1))
    /\ result' = MethodResult(call.method, Raise("OSError", "recv failed"))
    /\ pc' = "idle"
    /\ UNCHANGED <<socket, buffer, nsock, call, pre>>

Next ==
    \/ Connect /\ UNCHANGED ext
    \/ Close /\ UNCHANGED ext
    \/ \E c \in WireCalls : Call(c) /\ UNCHANGED ext
    \/ \E chunk \in WireChunks : RecvChunk(chunk) /\ UNCHANGED ext
    \/ RecvClosed /\ UNCHANGED ext
    \/ RecvError /\ UNCHANGED ext

Spec == Init /\ [][Next]_vars

\* the same session, with each response arriving as one whole line
NextLines ==
    \/ Connect /\ UNCHANGED ext
    \/ \E c \in Calls : Call(c) /\ UNCHANGED ext
    \/ \E chunk \in LineChunks : RecvChunk(chunk) /\ UNCHANGED ext

SpecLines == Init /\ [][NextLines]_vars

----------------------------------------------------------------------------
(* The caller's use of a result object *)

\* the largest index the callers pass to result[index]
MaxIndex == 2

IntValue(n) == [cls |-> "int", n |-> n]

ListValue(items) == [cls |-> "list", items |-> items]

\* the QueryResult objects the tests build, and the CommitResult objects
BuiltResults ==
    {QueryResult(<<"id", "name">>, << <<"1", "Alice">>, <<"2", "Bob">> >>, 2, 1),
     QueryResult(<<"id">>, << <<"1">>, <<"2">>, <<"3">> >>, 3, 1),
     CommitResult(1, 0, 2, 0, 3, 0, 0),
     DefaultCommitResult}

\* result = db.execute(...): the caller holds what the method returned
Rebind ==
    obs' = IF /\ pc' = "idle" /\ call'.method \in Methods /\ result'.kind = "return"
              /\ result'.value.cls \in {"QueryResult", "CommitResult"}
           THEN Fresh(result'.value, call'.method)
           ELSE NoObs

\* result = QueryResult(...) or CommitResult(...), as the tests do, with no
\* session in use
Construct(r) ==
    /\ nsock = 0
    /\ obs' = Fresh(r, "built")
    /\ UNCHANGED <<session, extResults>>

\* list(result)
IterOp ==
    /\ obs.obj.cls = "QueryResult"
    /\ obs' = [obs EXCEPT !.op = "iter", !.arg = 0,
                          !.out = Return(ListValue(Iterate(obs.obj)))]
    /\ UNCHANGED <<session, extResults>>

\* result[index]
GetItemOp(index) ==
    /\ obs.obj.cls = "QueryResult"
    /\ obs' = [obs EXCEPT !.op = "getitem", !.arg = index,
                          !.out = GetItem(obs.obj, index)]
    /\ UNCHANGED <<session, extResults>>

\* len(result)
LenOp ==
    /\ obs.obj.cls = "QueryResult"
    /\ obs' = [obs EXCEPT !.op = "len", !.arg = 0,
                          !.out = Return(IntValue(QueryResultLen(obs.obj)))]
    /\ UNCHANGED <<session, extResults>>

\* result.affected_rows
AffectedRowsOp ==
    /\ obs.obj.cls = "CommitResult"
    /\ obs' = [obs EXCEPT !.op = "affected_rows", !.arg = 0,
                          !.out = Return(IntValue(affected_rows(obs.obj)))]
    /\ UNCHANGED <<session, extResults>>

\* the session with whole response lines, and the caller using each result
NextResults ==
    \/ Connect /\ Rebind /\ UNCHANGED extResults
    \/ \E c \in WireCalls : Call(c) /\ Rebind /\ UNCHANGED extResults
    \/ \E chunk \in LineChunks : RecvChunk(chunk) /\ Rebind /\ UNCHANGED extResults
    \/ \E r \in BuiltResults : Construct(r)
    \/ IterOp
    \/ \E index \in (0 - MaxIndex - 1)..MaxIndex : GetItemOp(index)
    \/ LenOp
    \/ AffectedRowsOp

SpecResults == Init /\ [][NextResults]_vars

----------------------------------------------------------------------------
(* The with-block: with CommitDB(host, port) as db: body *)

\* the response lines the body's commands are answered with
BodyChunks ==
    {Text(v) \o <<NL>> :
        v \in {JObject([success |-> TRUE, type |-> "query", result |-> FullQueryResult]),
               JObject([success |-> TRUE, type |-> "commit", result |-> FullCommitResult]),
               JObject([success |-> FALSE, error |-> "table not found"]),
               JNull}}

\* the commands the body runs
BodyCalls == WireCalls

\* the exceptions the body can end with: the one its last method raised, or
\* one of its own
BodyExceptions ==
    {Raise("ValueError", "raised by the body")}
    \cup (IF result.kind = "raise" THEN {result} ELSE {})

\* an __exit__ that returns True
ExitSwallows(raised) == Return(NoneValue)

\* what the with statement gives its caller after __exit__ returned None:
\* the exception the body ended with is raised again
ExitOutcome(raised) ==
    IF raised.kind = "raise" THEN raised ELSE Return(NoneValue)

\* __enter__: return self.connect(); the body runs if it returned
Enter ==
    /\ scope.state # "in"
    /\ Connect
    /\ scope' = IF result'.kind = "return"
                THEN [state |-> "in", raised |-> NoResult, outcome |-> NoResult]
                ELSE [state |-> "out", raised |-> NoResult, outcome |-> result']

\* a step of the body: a method of the session
Body(A) ==
    /\ scope.state = "in"
    /\ A
    /\ UNCHANGED scope

\* the body ends, normally or with the exception raised, and __exit__ runs:
\* self.close()
Exit(raised) ==
    /\ scope.state = "in"
    /\ Close
    /\ scope' = [state |-> "left", raised |-> raised, outcome |-> ExitOutcome(raised)]

NextWith ==
    \/ Enter /\ UNCHANGED extWith
    \/ \E c \in BodyCalls : Body(Call(c)) /\ UNCHANGED extWith
    \/ \E chunk \in BodyChunks : Body(RecvChunk(chunk)) /\ UNCHANGED extWith
    \/ Body(RecvClosed) /\ UNCHANGED extWith
    \/ Body(RecvError) /\ UNCHANGED extWith
    \/ Body(Close) /\ UNCHANGED extWith
    \/ Exit(NoResult) /\ UNCHANGED extWith
    \/ \E raised \in BodyExceptions : Exit(raised) /\ UNCHANGED extWith

SpecWith == Init /\ [][NextWith]_vars

----------------------------------------------------------------------------
(* The merge commands of a manual resolution *)

ManualMerge == <<Ch("MERGE feature_manual WITH MANUAL RESOLUTION")>>

CommitMerge == <<Ch("COMMIT MERGE")>>

AbortMerge == <<Ch("ABORT MERGE")>>

\* the commands that start a merge
MergeCommands == {ManualMerge, <<Ch("MERGE feature")>>}

\* execute of each command of the sequence
MergeCalls ==
    {[method |-> "execute", command |-> text] :
        text \in MergeCommands \cup {CommitMerge, AbortMerge}}

\* the server's answers: done, or refused
MergeChunks ==
    {Text(v) \o <<NL>> :
        v \in {JObject([success |-> TRUE, type |-> "commit", result |-> FullCommitResult]),
               JObject([success |-> FALSE, error |-> "merge in progress"])}}

\* the merge state after a step of the session: a manual merge that execute
\* sent whole and returned from is pending until a COMMIT MERGE or ABORT
\* MERGE is sent whole and returns
Track ==
    merging' = IF /\ call'.method = "execute" /\ pc' = "idle"
                  /\ io' # io /\ result'.kind = "return"
                  /\ io'[1].op = "send" /\ io'[1].n = Len(io'[1].data)
               THEN IF call'.command = ManualMerge THEN TRUE
                    ELSE IF call'.command \in {CommitMerge, AbortMerge} THEN FALSE
                    ELSE merging
               ELSE merging

NextMerge ==
    \/ Connect /\ Track /\ UNCHANGED extMerge
    \/ Close /\ Track /\ UNCHANGED extMerge
    \/ \E c \in MergeCalls : Call(c) /\ Track /\ UNCHANGED extMerge
    \/ \E chunk \in MergeChunks : RecvChunk(chunk) /\ Track /\ UNCHANGED extMerge
    \/ RecvError /\ Track /\ UNCHANGED extMerge

SpecMerge == Init /\ [][NextMerge]_vars

----------------------------------------------------------------------------
(* A server that answers every command line with one response line, in order *)

\* command methods called on one connection
MaxCalls == 3

ServerCommands == {<<Ch("SELECT 1")>>, <<Ch("SELECT 2")>>, <<Ch("PING")>>}

ServerCalls == {[method |-> "execute", command |-> text] : text \in ServerCommands}

RowsResult(cell) ==
    [columns |-> <<"n">>, data |-> << <<cell>> >>, records_read |-> 1, time_ms |-> 1]

\* the response line (without its newline) the server writes for a command
\* line: the rows of a SELECT, a text that is not JSON for PING, and an
\* error envelope for anything else
Answer(line) ==
    IF line = <<Ch("SELECT 1")>>
    THEN Text(JObject([success |-> TRUE, type |-> "query", result |-> RowsResult("1")]))
    ELSE IF line = <<Ch("SELECT 2")>>
    THEN Text(JObject([success |-> TRUE, type |-> "query", result |-> RowsResult("2")]))
    ELSE IF line = <<Ch("PING")>>
    THEN <<Ch("pong")>>
    ELSE Text(JObject([success |-> FALSE, error |-> "syntax error"]))

RECURSIVE Answers(_)
\* the response lines for the complete command lines in bytes, in order
Answers(bytes) ==
    IF ~Contains(bytes, NL) THEN <<>>
    ELSE Answer(SplitOnce(bytes, NL)[1]) \o <<NL>> \o Answers(SplitOnce(bytes, NL)[2])

RECURSIVE Unfinished(_)
\* the bytes after the last newline of bytes
Unfinished(bytes) ==
    IF ~Contains(bytes, NL) THEN bytes ELSE Unfinished(SplitOnce(bytes, NL)[2])

\* the session opens its one connection
ServerConnect ==
    /\ nsock = 0
    /\ Connect
    /\ wire' = NoWire

\* a command method; the server gets the bytes the send transmitted and
\* answers each command line they complete
ServerCall(c) ==
    /\ wire.calls < MaxCalls
    /\ Call(c)
    /\ LET n == IF io' = <<>> THEN 0 - 1 ELSE io'[1].n
           got == IF n > 0 THEN SubSeq(Frame(c.command), 1, n) ELSE <<>>
           all == wire.srvbuf \o got
       IN  wire' = [srvbuf |-> Unfinished(all),
                    calls |-> wire.calls + 1,
                    inflight |-> wire.inflight \o Answers(all),
                    sent |-> wire.sent + Cardinality({i \in 1..Len(got) : got[i] = NL}),
                    taken |-> wire.taken + (IF buffer' # buffer THEN 1 ELSE 0),
                    short |-> wire.short \/ (n > 0 /\ n < Len(Frame(c.command)))]

\* recv returns the next bytes in flight
ServerDeliver ==
    \E n \in 1..Min(MaxChunk, Len(wire.inflight)) :
        /\ RecvChunk(SubSeq(wire.inflight, 1, n))
        /\ wire' = [wire EXCEPT
                        !.inflight = SubSeq(wire.inflight, n + 1, Len(wire.inflight)),
                        !.taken = wire.taken + (IF pc' = "idle" THEN 1 ELSE 0)]

\* recv times out before the next bytes arrive
ServerTimeout ==
    /\ RecvError
    /\ UNCHANGED wire

NextServer ==
    \/ ServerConnect /\ UNCHANGED extServer
    \/ \E c \in ServerCalls : ServerCall(c) /\ UNCHANGED extServer
    \/ ServerDeliver /\ UNCHANGED extServer
    \/ ServerTimeout /\ UNCHANGED extServer

SpecServer == Init /\ [][NextServer]_vars

----------------------------------------------------------------------------
(* The session with a record of everything received and consumed *)

\* bytes recorded in one run
MaxHeard == 4

\* the envelope whose bytes arrive: a query result
StreamEnvelope == [success |-> TRUE, type |-> "query", result |-> FullQueryResult]

StreamBytes == {NL, RBrace, LBrace(StreamEnvelope)}

\* the commands run: execute with a one-line command
StreamCalls == {c \in WireCalls : c.method = "execute"}

StreamChunks == UNION {[1..n -> StreamBytes] : n \in 1..MaxChunk}

\* the bytes of chunk, each marked with the socket it was received on
From(chunk, sock) == [i \in 1..Len(chunk) |-> [b |-> chunk[i], sock |-> sock]]

\* a command method that finds its line in the buffer: the line is recorded
HearCall ==
    heard' = IF buffer' # buffer
             THEN [heard EXCEPT !.lines = Append(@, SplitOnce(buffer, NL)[1])]
             ELSE heard

\* recv returns chunk: its bytes are recorded, and the line when _send
\* takes one off
HearChunk(chunk) ==
    /\ Len(heard.rx) + Len(chunk) <= MaxHeard
    /\ heard' = [rx |-> heard.rx \o From(chunk, socket.id),
                 lines |-> IF pc' = "idle"
                           THEN Append(heard.lines, SplitOnce(buffer \o chunk, NL)[1])
                           ELSE heard.lines,
                 closed |-> heard.closed]

\* close() releases the socket it holds
HearClose ==
    heard' = IF HasSocket(socket)
             THEN [heard EXCEPT !.closed = @ \cup {socket.id}]
             ELSE heard

NextStream ==
    \/ Connect /\ UNCHANGED ext
    \/ Close /\ HearClose /\ UNCHANGED extStream
    \/ \E c \in StreamCalls : Call(c) /\ HearCall /\ UNCHANGED extStream
    \/ \E chunk \in StreamChunks :
            RecvChunk(chunk) /\ HearChunk(chunk) /\ UNCHANGED extStream
    \/ RecvClosed /\ UNCHANGED ext
    \/ RecvError /\ UNCHANGED ext

SpecStream == Init /\ [][NextStream]_vars

----------------------------------------------------------------------------
(* What the history variables say about the method running or last run *)

RECURSIVE Rx(_)
\* the bytes the method's recv() calls returned, in order
Rx(log) ==
    IF Len(log) = 0 THEN <<>>
    ELSE IF log[1].op = "recv" /\ log[1].n > 0
    THEN log[1].data \o Rx(Tail(log))
    ELSE Rx(Tail(log))

\* the buffer on entry followed by everything received since
Stream == pre.buffer \o Rx(io)

Ops(log) == [i \in 1..Len(log) |-> log[i].op]

\* a command method ran on a session that held a socket
OnSocket == call.method \in Methods /\ pre.socket # NoSocket

\* the method has finished and its _send got as far as the split
Consumed ==
    /\ call.method \in Methods
    /\ pc = "idle"
    /\ Len(io) > 0 /\ io[1].op = "send" /\ io[1].n > 0
    /\ Contains(Stream, NL)
    /\ Len(buffer) < Len(Stream)

\* the response line that _send took off the buffer
ConsumedLine == SubSeq(Stream, 1, Len(Stream) - Len(buffer) - 1)

IsObjectText(line) == Len(line) = 2 /\ line[1].c = "{" /\ line[2] = RBrace

\* the envelope of a consumed line that is the text of a JSON object
ConsumedEnvelope == ConsumedLine[1].members

NotConnectedError == CommitDBError("Not connected. Call connect() first.")

----------------------------------------------------------------------------
(* The embedded client, as the specification describes it, beside the remote *)

\* the envelopes both clients are answered with
EmbeddedEnvelopes ==
    {[success |-> TRUE, type |-> "query", result |-> FullQueryResult],
     [success |-> TRUE, type |-> "commit", result |-> FullCommitResult],
     [success |-> TRUE, type |-> "status"],
     [success |-> FALSE, error |-> "table not found"],
     EmptyObj}

EmbeddedChunks == {Text(JObject(f)) \o <<NL>> : f \in EmbeddedEnvelopes}

\* execute and query, with a command of one line and one of two
EmbeddedCalls == {c \in Calls : c.method \in {"execute", "query"}}

\* what the embedded session's exchange with the library gives execute: the
\* not-open error on a session that is not open, the misuse error for a
\* command that contains a newline, and otherwise the response object the
\* library returns for the command
EmbeddedSend(open, command, envelope) ==
    IF ~open
    THEN CommitDBError("Not connected. Call connect() first.")
    ELSE IF Contains(command, NL)
    THEN CommitDBError("Command contains a newline")
    ELSE Return(JObject(envelope))

\* open(): loads the library; fails on a session already open
LocalOpen ==
    /\ \E ok \in BOOLEAN :
          local' = [open |-> local.open \/ ok, paired |-> FALSE,
                    call |-> [method |-> "open", command |-> <<>>],
                    result |-> IF local.open
                               THEN CommitDBError("Already open")
                               ELSE IF ok THEN Return([cls |-> "CommitDBLocal"])
                               ELSE Raise("OSError", "library not loaded")]
    /\ UNCHANGED session

\* close(): unloads the library; a no-op on a session not open
LocalClose ==
    /\ local' = [open |-> FALSE, paired |-> FALSE,
                 call |-> [method |-> "close", command |-> <<>>],
                 result |-> Return(NoneValue)]
    /\ UNCHANGED session

\* the remote client's last method decoded envelope on a connected socket,
\* or ran on a session that held no socket
RemoteAnswered(envelope) ==
    /\ pc = "idle"
    /\ call.method \in Methods
    /\ \/ /\ pre.socket.connected
          /\ Consumed /\ IsObjectText(ConsumedLine)
          /\ ConsumedEnvelope = envelope
       \/ pre.socket = NoSocket

\* the embedded client runs the method the remote client ran last, on a
\* session as open as the remote one was, its library returning the
\* envelope the remote client decoded
Mirror(envelope) ==
    /\ RemoteAnswered(envelope)
    /\ local.open = pre.socket.connected
    /\ local' = [open |-> local.open, paired |-> TRUE, call |-> call,
                 result |-> MethodResult(call.method,
                               EmbeddedSend(local.open, call.command, envelope))]
    /\ UNCHANGED session

\* a step of the remote client ends the pairing
Unpair == local' = [local EXCEPT !.paired = FALSE]

NextEmbedded ==
    \/ Connect /\ Unpair /\ UNCHANGED extEmbedded
    \/ Close /\ Unpair /\ UNCHANGED extEmbedded
    \/ \E c \in EmbeddedCalls : Call(c) /\ Unpair /\ UNCHANGED extEmbedded
    \/ \E chunk \in EmbeddedChunks : RecvChunk(chunk) /\ Unpair /\ UNCHANGED extEmbedded
    \/ LocalOpen /\ UNCHANGED extEmbedded
    \/ LocalClose /\ UNCHANGED extEmbedded
    \/ \E envelope \in EmbeddedEnvelopes : Mirror(envelope) /\ UNCHANGED extEmbedded

SpecEmbedded == Init /\ [][NextEmbedded]_vars

----------------------------------------------------------------------------
(* Claims *)

\* C1: a command method called on a session that holds no socket (never
\* connected, or closed) has finished with the "Not connected" CommitDBError,
\* has made no call on any transport, and has left the socket handle and the
\* read buffer as they were.
C1_NotConnectedBeforeIO ==
    (call.method \in Methods /\ pre.socket = NoSocket) =>
        /\ pc = "idle"
        /\ result = NotConnectedError
        /\ io = <<>>
        /\ socket = pre.socket
        /\ buffer = pre.buffer

\* execute on a session closed after use, with bytes still in its buffer
C1_Witness ==
    /\ call.method = "execute"
    /\ pre.socket = NoSocket
    /\ nsock > 0
    /\ Len(pre.buffer) > 0
    /\ result = NotConnectedError

\* C2: however the bytes arrive in chunks, _send parses exactly the bytes
\* before the first newline of (buffer on entry + bytes received), and leaves
\* in the buffer exactly the bytes after that newline; while it is still
\* reading, the buffer holds everything received and no newline.
C2_SplitAtFirstNewline ==
    /\ (call.method \in Methods /\ pc = "recv") =>
            /\ buffer = Stream
            /\ ~Contains(buffer, NL)
    /\ (/\ call.method \in Methods /\ pc = "idle"
        /\ Len(io) > 0 /\ io[1].op = "send" /\ io[1].n > 0
        /\ Contains(Stream, NL)) =>
            /\ Len(buffer) < Len(Stream)
            /\ LET k == Len(Stream) - Len(buffer)
               IN  /\ Stream[k] = NL
                   /\ \A j \in 1..(k - 1) : Stream[j] # NL
                   /\ buffer = SubSeq(Stream, k + 1, Len(Stream))
                   /\ result = MethodResult(call.method,
                                            ParseLine(SubSeq(Stream, 1, k - 1)))

\* the newline arrives in the third chunk, which carries a byte past it
C2_Witness ==
    /\ call.method = "execute"
    /\ pc = "idle"
    /\ Ops(io) = <<"send", "recv", "recv", "recv">>
    /\ io[1].n = Len(io[1].data)
    /\ ~Contains(io[2].data \o io[3].data, NL)
    /\ io[4].n = 2
    /\ io[4].data[1] = NL
    /\ Len(buffer) = 1
    /\ result.kind = "return"
    /\ result.value.cls = "QueryResult"

\* C3: a command method on a session that holds a socket makes one send, of
\* the command followed by one newline, before any recv; the transport takes
\* the whole frame or the send raises; the method creates and connects no
\* socket, and takes at most one line off the stream.
C3_OneWholeFrame ==
    OnSocket =>
        /\ Len(io) > 0
        /\ io[1] = IO("send", pre.socket.id, call.command \o <<NL>>, io[1].n)
        /\ io[1].n \in {-1, Len(call.command) + 1}
        /\ \A i \in 2..Len(io) : io[i].op = "recv" /\ io[i].sock = pre.socket.id
        /\ socket = pre.socket
        /\ Len(Stream) - Len(buffer) \in {0} \cup
              {k \in 1..Len(Stream) : Stream[k] = NL /\ \A j \in 1..(k - 1) : Stream[j] # NL}

\* C4: when recv returns no bytes before the buffer holds a newline, the
\* method raises the "Connection closed by server" error, which is not the
\* error raised for a malformed line, and returns no result, whatever bytes
\* are in the buffer.
C4_ClosedNotEmptyResult ==
    (/\ call.method \in Methods /\ pc = "idle" /\ Len(io) > 0
     /\ io[Len(io)].op = "recv" /\ io[Len(io)].n = 0) =>
        /\ ~Contains(Stream, NL)
        /\ result.kind = "raise"
        /\ result.value = NoneValue
        /\ result = CommitDBError("Connection closed by server")
        /\ result # CommitDBError("Invalid response from server")
        /\ \A n \in 0..Len(Stream) : result # ParseLine(SubSeq(Stream, 1, n))

\* the peer closes after part of a response was received
C4_Witness ==
    /\ call.method = "execute"
    /\ pc = "idle"
    /\ Len(io) = 3
    /\ io[3].op = "recv" /\ io[3].n = 0
    /\ Len(buffer) > 0
    /\ buffer[1].c = "{"
    /\ result.kind = "raise"

\* C5: a consumed line that is not the text of a JSON object makes the method
\* raise the CommitDBError for an invalid response.
C5_MalformedIsProtocolError ==
    (Consumed /\ ~IsObjectText(ConsumedLine)) =>
        result = CommitDBError("Invalid response from server")

\* C6: a consumed envelope with success false makes the method raise
\* CommitDBError with the envelope's error text (or 'Unknown error' when it
\* has none), whatever its type and result fields, and return nothing.
C6_ServerErrorVerbatim ==
    (/\ Consumed /\ IsObjectText(ConsumedLine)
     /\ "success" \in DOMAIN ConsumedEnvelope
     /\ ~ConsumedEnvelope.success) =>
        /\ result.kind = "raise"
        /\ result.exc = "CommitDBError"
        /\ result.value = NoneValue
        /\ result.msg = IF "error" \in DOMAIN ConsumedEnvelope
                        THEN ConsumedEnvelope.error ELSE "Unknown error"

\* a failed envelope that also carries a type and a result
C6_Witness ==
    /\ Consumed /\ IsObjectText(ConsumedLine)
    /\ call.method = "execute"
    /\ ConsumedEnvelope = [success |-> FALSE, type |-> "query",
                           result |-> FullQueryResult, error |-> "table not found"]
    /\ result = CommitDBError("table not found")
\* C7: for a consumed envelope with success true, execute returns by type:
\* "query" a QueryResult of result's columns, data, records_read and time_ms,
\* "commit" a CommitResult of result's six counters and time_ms, any other
\* or no type a CommitResult with every counter 0; a field missing from
\* result (or result itself missing) is replaced by [] or 0.
C7_DispatchOnType ==
    (/\ Consumed /\ IsObjectText(ConsumedLine)
     /\ call.method = "execute"
     /\ "success" \in DOMAIN ConsumedEnvelope
     /\ ConsumedEnvelope.success) =>
        LET f == ConsumedEnvelope
            rd == IF "result" \in DOMAIN f THEN f.result ELSE EmptyObj
            Field(k, default) == IF k \in DOMAIN rd THEN rd[k] ELSE default
            type == IF "type" \in DOMAIN f THEN f.type ELSE "absent"
        IN  /\ result.kind = "return"
            /\ type = "query" =>
                  result.value = [cls |-> "QueryResult",
                                  columns |-> Field("columns", <<>>),
                                  data |-> Field("data", <<>>),
                                  records_read |-> Field("records_read", 0),
                                  time_ms |-> Field("time_ms", 0)]
            /\ type = "commit" =>
                  result.value = [cls |-> "CommitResult",
                                  databases_created |-> Field("databases_created", 0),
                                  databases_deleted |-> Field("databases_deleted", 0),
                                  tables_created |-> Field("tables_created", 0),
                                  tables_deleted |-> Field("tables_deleted", 0),
                                  records_written |-> Field("records_written", 0),
                                  records_deleted |-> Field("records_deleted", 0),
                                  time_ms |-> Field("time_ms", 0)]
            /\ type \notin {"query", "commit"} =>
                  result.value = [cls |-> "CommitResult",
                                  databases_created |-> 0, databases_deleted |-> 0,
                                  tables_created |-> 0, tables_deleted |-> 0,
                                  records_written |-> 0, records_deleted |-> 0,
                                  time_ms |-> 0]

\* a commit envelope whose result lacks records_written
C7_Witness ==
    /\ Consumed /\ IsObjectText(ConsumedLine)
    /\ call.method = "execute"
    /\ ConsumedEnvelope = [success |-> TRUE, type |-> "commit",
                           result |-> Without(FullCommitResult, "records_written")]
    /\ result.kind = "return"
    /\ result.value.records_written = 0
    /\ result.value.records_deleted = FullCommitResult.records_deleted

\* C8: for a consumed envelope with success true, query returns a
\* QueryResult when the type is "query" and otherwise raises the
\* type-mismatch error (also for the zero CommitResult of an unknown or
\* missing type); create_database, drop_database, create_table and insert
\* raise their type-mismatch error when the type is "query".  query never
\* returns anything but a QueryResult.
C8_TypeMismatch ==
    /\ (call.method = "query" /\ pc = "idle" /\ result.kind = "return") =>
            result.value.cls = "QueryResult"
    /\ (/\ Consumed /\ IsObjectText(ConsumedLine)
        /\ "success" \in DOMAIN ConsumedEnvelope
        /\ ConsumedEnvelope.success) =>
            LET f == ConsumedEnvelope
                isQuery == "type" \in DOMAIN f /\ f.type = "query"
                wrappers == {"create_database", "drop_database", "create_table", "insert"}
            IN  /\ (call.method = "query" /\ isQuery) =>
                        result.kind = "return" /\ result.value.cls = "QueryResult"
                /\ (call.method = "query" /\ ~isQuery) =>
                        result = CommitDBError("Expected query result, got commit result")
                /\ (call.method \in wrappers /\ isQuery) =>
                        result = CommitDBError("Expected commit result")
                /\ (call.method \in wrappers /\ ~isQuery) =>
                        result.kind = "return" /\ result.value.cls = "CommitResult"

\* query answered by a successful envelope of an unknown type
C8_Witness ==
    /\ Consumed /\ IsObjectText(ConsumedLine)
    /\ call.method = "query"
    /\ ConsumedEnvelope = [success |-> TRUE, type |-> "status"]
    /\ result = CommitDBError("Expected query result, got commit result")

\* C9: close() on a session that holds a socket sends 'quit\n' once on it,
\* closes it, sets the handle to None and returns None whether the send
\* raised or not; a command method called next raises the "Not connected"
\* error without any call on a transport.
C9_CloseReleases ==
    [][/\ (call'.method = "close" /\ pre'.socket # NoSocket) =>
              /\ Len(io') = 2
              /\ io'[1] = IO("send", pre'.socket.id, Quit, io'[1].n)
              /\ io'[2] = IO("close", pre'.socket.id, <<>>, 0)
              /\ result' = Return(NoneValue)
              /\ socket' = NoSocket
              /\ pc' = "idle"
       /\ (call.method = "close" /\ call'.method \in Methods) =>
              /\ result' = NotConnectedError
              /\ io' = <<>>]_vars

\* close() whose send of the quit sentinel raised on a connected socket
C9_Witness ==
    /\ call.method = "close"
    /\ pre.socket.connected
    /\ Len(io) = 2
    /\ io[1].n = -1
    /\ socket = NoSocket
    /\ result = Return(NoneValue)

\* C10: close() on a session that holds no socket makes no call on any
\* transport, returns None and leaves the handle and the buffer as they were.
C10_CloseIdempotent ==
    (call.method = "close" /\ pre.socket = NoSocket) =>
        /\ io = <<>>
        /\ result = Return(NoneValue)
        /\ socket = pre.socket
        /\ buffer = pre.buffer
        /\ pc = "idle"

\* close() on a session closed before, with bytes still in its buffer
C10_Witness ==
    /\ call.method = "close"
    /\ pre.socket = NoSocket
    /\ nsock > 0
    /\ Len(buffer) > 0
    /\ io = <<>>

\* C12: connect() on a session whose socket is connected raises, and leaves
\* the socket handle and the read buffer as they were: no new socket object
\* takes the place of the open one.
C12_ConnectOnOpenFails ==
    (call.method = "connect" /\ pre.socket.connected) =>
        /\ result.kind = "raise"
        /\ socket = pre.socket
        /\ buffer = pre.buffer
        /\ io = <<>>

\* C20: after a connect() that raised, the session is closed: a command
\* method called next raises the "Not connected" error without any call on
\* a transport, and a close() called next makes no call on a transport,
\* returns None and leaves the handle as it was.
C20_FailedConnectStaysClosed ==
    [][(call.method = "connect" /\ result.kind = "raise") =>
          /\ call'.method \in Methods =>
                /\ result' = NotConnectedError
                /\ io' = <<>>
          /\ call'.method = "close" =>
                /\ io' = <<>>
                /\ result' = Return(NoneValue)
                /\ socket' = socket]_vars

\* the number of newline bytes in bytes
NewlinesIn(bytes) == Cardinality({i \in 1..Len(bytes) : bytes[i] = NL})

\* C13: a command method whose command text contains a newline raises
\* CommitDBError and makes no call on a transport; on a connected socket no
\* send of a command method carries more than one newline.
C13_NewlineRejected ==
    /\ (call.method \in Methods /\ Contains(call.command, NL)) =>
            /\ pc = "idle"
            /\ result.kind = "raise"
            /\ result.exc = "CommitDBError"
            /\ io = <<>>
    /\ (call.method \in Methods /\ pre.socket.connected) =>
            \A i \in 1..Len(io) : io[i].op = "send" => NewlinesIn(io[i].data) <= 1

\* a successful envelope of type "query" was consumed by execute
QueryEnvelopeConsumed ==
    /\ Consumed /\ IsObjectText(ConsumedLine)
    /\ call.method = "execute"
    /\ "success" \in DOMAIN ConsumedEnvelope /\ ConsumedEnvelope.success
    /\ "type" \in DOMAIN ConsumedEnvelope /\ ConsumedEnvelope.type = "query"

\* the rows of the consumed envelope ([] when it has no result or no data)
ConsumedRows ==
    LET f == ConsumedEnvelope
    IN  IF "result" \in DOMAIN f /\ "data" \in DOMAIN f.result
        THEN f.result.data ELSE <<>>

\* C15: the QueryResult that execute returns for a successful envelope of
\* type "query" has in every row as many cells as it has columns, and its
\* len() is the number of rows of the envelope's data.
C15_RowsMatchColumns ==
    QueryEnvelopeConsumed =>
        /\ result.kind = "return"
        /\ result.value.cls = "QueryResult"
        /\ \A i \in 1..Len(result.value.data) :
                Len(result.value.data[i]) = Len(result.value.columns)
        /\ QueryResultLen(result.value) = Len(ConsumedRows)

\* d is the mapping columns[j] -> data[i][j] over all columns j of r
MapsAllColumns(r, i, d) ==
    /\ DOMAIN d = {r.columns[j] : j \in 1..Len(r.columns)}
    /\ \A j \in 1..Len(r.columns) :
          (\A m \in (j + 1)..Len(r.columns) : r.columns[m] # r.columns[j]) =>
              /\ j <= Len(r.data[i])
              /\ d[r.columns[j]] = r.data[i][j]

\* C16: for the QueryResult the caller holds, result[i] for a valid index i
\* is the i-th element of list(result); the elements of list(result) are,
\* in the order of the rows, the mappings columns[j] -> data[i][j] over all
\* columns j; a use of the result does not change it, and list(result)
\* taken again is the same list.
C16_IndexEqualsIteration ==
    /\ [](/\ (/\ obs.op = "getitem"
              /\ obs.arg >= 0 /\ obs.arg < Len(obs.obj.data)) =>
                  /\ obs.out.kind = "return"
                  /\ obs.out.value = Iterate(obs.obj)[obs.arg + 1]
                  /\ MapsAllColumns(obs.obj, obs.arg + 1, obs.out.value)
          /\ obs.op = "iter" =>
                  /\ obs.out.kind = "return"
                  /\ Len(obs.out.value.items) = Len(obs.obj.data)
                  /\ \A i \in 1..Len(obs.obj.data) :
                        MapsAllColumns(obs.obj, i, obs.out.value.items[i]))
    /\ [][/\ obs'.op # "" => obs'.obj = obs.obj
          /\ (obs.op = "iter" /\ obs'.op = "iter") => obs'.out = obs.out]_vars

CountOps(log, op) == Cardinality({i \in 1..Len(log) : log[i].op = op})

\* C11: entering the with-block connects the session, and the body runs only
\* then; when the body ends, normally or with an exception, close() runs
\* once (one quit sent and one close of the socket held, none when the body
\* had closed the session itself), the socket handle is None afterwards, and
\* the with statement ends normally for a body that ended normally and with
\* the body's own exception otherwise.
C11_WithClosesOnce ==
    [][/\ (scope.state # "in" /\ scope'.state = "in") =>
              /\ call'.method = "connect"
              /\ result'.kind = "return"
              /\ socket'.connected
       /\ (scope.state = "in" /\ scope'.state = "left") =>
              /\ call'.method = "close"
              /\ CountOps(io', "close") = (IF socket # NoSocket THEN 1 ELSE 0)
              /\ CountOps(io', "send") = (IF socket # NoSocket THEN 1 ELSE 0)
              /\ \A i \in 1..Len(io') : io'[i].sock = socket.id
              /\ socket' = NoSocket
              /\ scope'.raised.kind = "none" => scope'.outcome = Return(NoneValue)
              /\ scope'.raised.kind = "raise" => scope'.outcome = scope'.raised]_vars

\* the body's execute raised the server's error, the block was left with it,
\* and close() sent quit and closed the socket
C11_Witness ==
    /\ scope.state = "left"
    /\ scope.outcome = CommitDBError("table not found")
    /\ call.method = "close"
    /\ Ops(io) = <<"send", "close">>
    /\ pre.socket.connected
    /\ socket = NoSocket

\* C14: while a manual merge that execute returned from is pending (no
\* COMMIT MERGE or ABORT MERGE has returned since), a command method called
\* with a MERGE command raises CommitDBError without any call on a transport.
C14_SecondMergeRefused ==
    [][(/\ merging
        /\ pc = "idle"
        /\ call'.method \in Methods
        /\ call'.command \in MergeCommands
        /\ pre' = [socket |-> socket, buffer |-> buffer]
        /\ <<call', io', result'>> # <<call, io, result>>) =>
            /\ result'.kind = "raise"
            /\ result'.exc = "CommitDBError"
            /\ io' = <<>>]_vars

\* C19: on one connection to a server that answers every command line with
\* one response line in order, and with every frame sent whole, an execute
\* that decoded an envelope (and so returned a result or raised the
\* server's error) has taken the response line written for its own command:
\* as many response lines were taken as command lines were sent, and the
\* line taken is the server's answer to this call's command, also after
\* earlier calls that timed out in recv or took a line that is not JSON.
C19_OwnResponse ==
    (/\ call.method = "execute"
     /\ Consumed /\ IsObjectText(ConsumedLine)
     /\ ~wire.short) =>
        /\ wire.taken = wire.sent
        /\ ConsumedLine = Answer(call.command)
        /\ result = Execute(ParseLine(Answer(call.command)))

\* C18: when the embedded client has run the method the remote client ran
\* last, with the same command, on a session as open as the remote one and
\* with the library returning the envelope the remote client decoded, both
\* have the same outcome: the same typed result or the same error.
C18_SameOutcome ==
    local.paired => local.result = result

\* C21: close() and connect() leave the read buffer as it was, so bytes
\* buffered behind the last consumed line are still there when a command
\* method runs on the next connection; that method consumes them first: when
\* they hold a newline it takes its line from them without any recv, and
\* otherwise the line it takes begins with them and goes on with the bytes
\* received, the rest of those staying in the buffer.
C21_BufferSurvivesClose ==
    /\ call.method \in {"close", "connect"} => buffer = pre.buffer
    /\ (OnSocket /\ Len(io) > 0 /\ io[1].n > 0) =>
          /\ Contains(pre.buffer, NL) =>
                /\ pc = "idle"
                /\ Len(io) = 1
                /\ result = MethodResult(call.method,
                               ParseLine(SubSeq(pre.buffer, 1,
                                                FirstIndex(pre.buffer, NL) - 1)))
                /\ buffer = SubSeq(pre.buffer, FirstIndex(pre.buffer, NL) + 1,
                                   Len(pre.buffer))
          /\ (~Contains(pre.buffer, NL) /\ Consumed) =>
                /\ Len(ConsumedLine) >= Len(pre.buffer)
                /\ SubSeq(ConsumedLine, 1, Len(pre.buffer)) = pre.buffer
                /\ ConsumedLine \o <<NL>> \o buffer = pre.buffer \o Rx(io)
                /\ result = MethodResult(call.method, ParseLine(ConsumedLine))
          /\ (~Contains(pre.buffer, NL) /\ ~Consumed) =>
                /\ Len(buffer) >= Len(pre.buffer)
                /\ SubSeq(buffer, 1, Len(pre.buffer)) = pre.buffer

\* the session was closed with the opening of a response in its buffer and
\* connected again; execute on the second socket received the closing brace
\* and the newline there and returned the QueryResult of the joined line
\* a byte received on socket 1 stays buffered while close() releases that
\* socket and connect() opens socket 2, and execute on socket 2 takes it as
\* the start of its line, ahead of the bytes socket 2 delivers
C21_Witness ==
    /\ call.method = "execute"
    /\ pre.socket = [id |-> 2, connected |-> TRUE]
    /\ pre.buffer = <<LBrace(StreamEnvelope)>>
    /\ 1 \in heard.closed
    /\ Len(heard.rx) = 3
    /\ heard.rx[1] = [b |-> pre.buffer[1], sock |-> 1]
    /\ heard.rx[2] = [b |-> RBrace, sock |-> 2]
    /\ heard.rx[3] = [b |-> NL, sock |-> 2]
    /\ heard.lines = <<pre.buffer \o <<RBrace>>>>
    /\ buffer = <<>>
    /\ result.kind = "return"
    /\ result.value.cls = "QueryResult"

\* the bytes of the recorded receptions, in the order received
Received == [i \in 1..Len(heard.rx) |-> heard.rx[i].b]

RECURSIVE Delimited(_)
\* the lines, each followed by its newline, one after the other
Delimited(lines) ==
    IF lines = <<>> THEN <<>>
    ELSE Head(lines) \o <<NL>> \o Delimited(Tail(lines))

\* C22: at every moment the bytes received so far over the session's sockets
\* are exactly the lines the command methods have consumed, each followed by
\* its newline, and then the read buffer, in that order; nothing received is
\* dropped, repeated or moved, and no consumed line holds a newline.
C22_ReceivedIsLinesThenBuffer ==
    /\ Received = Delimited(heard.lines) \o buffer
    /\ \A i \in 1..Len(heard.lines) : ~Contains(heard.lines[i], NL)

\* on an open session execute received a response in two chunks, the second
\* carrying the newline and one byte of what follows: the line is consumed
\* and the byte beyond the newline is the read buffer
C22_Witness ==
    /\ HasSocket(socket)
    /\ socket.connected
    /\ pc = "idle"
    /\ call.method = "execute"
    /\ Ops(io) = <<"send", "recv", "recv">>
    /\ io[2].data = <<LBrace(StreamEnvelope), RBrace>>
    /\ io[3].data = <<NL, RBrace>>
    /\ Len(heard.rx) = 4
    /\ heard.lines = <<<<LBrace(StreamEnvelope), RBrace>>>>
    /\ buffer = <<RBrace>>
    /\ result.kind = "return"

\* the command method ended because recv returned b''
PeerClosed ==
    /\ OnSocket
    /\ pc = "idle"
    /\ Len(io) > 1
    /\ io[Len(io)].op = "recv"
    /\ io[Len(io)].n = 0

\* C23: a command method never changes the socket the session holds, whatever
\* it raises (a server error, an invalid response, a closed connection or any
\* other failure) and also when it returns; a session that holds a socket
\* comes to hold none only by close(); and when the method ends because the
\* peer closed the connection, the buffer is what it was on entry followed by
\* every byte received since.
C23_FailureKeepsSession ==
    /\ [](/\ call.method \in Methods => socket = pre.socket
          /\ PeerClosed => /\ result = MethodResult(call.method, ClosedByPeer)
                           /\ buffer = Stream)
    /\ [][(socket # NoSocket /\ socket' = NoSocket) => call'.method = "close"]_vars

\* execute on a connected session received the opening of a response and then
\* b'': it raised the connection-closed error, the session holds the same
\* socket as before, and the byte received is in the buffer
C23_Witness ==
    /\ call.method = "execute"
    /\ pre.socket # NoSocket
    /\ pre.socket.connected
    /\ pre.buffer = <<>>
    /\ Ops(io) = <<"send", "recv", "recv">>
    /\ io[2].n = 1
    /\ io[2].data[1].c = "{"
    /\ io[3].n = 0
    /\ pc = "idle"
    /\ result = ClosedByPeer
    /\ socket = pre.socket
    /\ buffer = io[2].data

====
